---------------------------- MODULE Spec2Model ----------------------------
(***************************************************************************)
(* A model of rs-co2mon: the frame decryptor (lib.rs decrypt), the sensor  *)
(* session (OpenOptions, Sensor::open, Sensor::read) and the older         *)
(* single-file polling loop (main.rs).                                     *)
(*                                                                         *)
(* Rust arrays are 0-based, TLA+ sequences 1-based: data[i] of the source  *)
(* is data[i+1] here.  Bytes are naturals in 0..255 and every u8 operation *)
(* is reduced modulo 256 the way the source's operator does it.            *)
(*                                                                         *)
(* Floating point: the f64 readings are modelled as exact decimal values   *)
(* in units of 1/10000.  w/16.0, w*0.0625 and w/100.0 are exact in that    *)
(* unit; the f64 rounding of the final subtraction is not modelled.        *)
(***************************************************************************)
EXTENDS Naturals, Integers, Sequences, FiniteSets, TLC

VARIABLES
    opts,         \* the OpenOptions builder: [key, debug, timeout]
    sensor,       \* the Sensor struct, [open |-> FALSE] before Sensor::open succeeds
    openArg,      \* the options value Sensor::open was last called with
    openResult,   \* outcome of the Sensor::open call
    release,      \* release number the device reported in Sensor::open
    featureSent,  \* the feature report Sensor::open handed to the device
    io,           \* result of the last dev.read_timeout call of Sensor::read
    usedTimeout,  \* the timeout (i32, ms) handed to that read_timeout call
    path,         \* the stages the last Sensor::read went through
    frame,        \* `data` of the last Sensor::read after its decode step
    event,        \* what the last Sensor::read returned
    nreads,       \* number of dev.read_timeout calls made by Sensor::read
    mainPc,       \* main.rs: "init" before the loop is entered, then "loop"
    mainIo,       \* main.rs: result (and buffer) of the loop's last read_timeout
    mainLog,      \* main.rs: the log lines of the last loop iteration
    dIn,          \* pure-function harness: the (data, key) given to decrypt
    dOut          \* pure-function harness: what decrypt returned, <<>> before

vars == <<opts, sensor, openArg, openResult, release, featureSent, io, usedTimeout,
          path, frame, event, nreads, mainPc, mainIo, mainLog, dIn, dOut>>

sessionVars == <<opts, sensor, openArg, openResult, release, featureSent, io,
                 usedTimeout, path, frame, event, nreads>>
mainVars == <<mainPc, mainIo, mainLog>>
harnessVars == <<dIn, dOut>>

-----------------------------------------------------------------------------
(* Program constants *)

CODE_HUMD == 65
CODE_TAMB == 66
CODE_CNTR == 80
MARKER == 13
SPURIOUS_LIMIT == 3000
DECODE_MAX_RELEASE == 256
DEFAULT_TIMEOUT_SECS == 5

(* Model bound: how many read_timeout calls one session makes *)
MaxReads == 2

-----------------------------------------------------------------------------
(* u8 arithmetic *)

Byte == 0..255

RECURSIVE BitXorN(_, _, _)
BitXorN(a, b, n) ==
    IF n = 0 THEN 0
    ELSE (((a % 2) + (b % 2)) % 2) + 2 * BitXorN(a \div 2, b \div 2, n - 1)

RECURSIVE BitOrN(_, _, _)
BitOrN(a, b, n) ==
    IF n = 0 THEN 0
    ELSE (IF a % 2 = 1 \/ b % 2 = 1 THEN 1 ELSE 0) + 2 * BitOrN(a \div 2, b \div 2, n - 1)

\* The two operators tabulated once over all byte pairs
XorTable == [a \in Byte |-> [b \in Byte |-> BitXorN(a, b, 8)]]
OrTable == [a \in Byte |-> [b \in Byte |-> BitOrN(a, b, 8)]]

BitXor(a, b) == XorTable[a][b]
BitOr(a, b) == OrTable[a][b]

\* u8 << n keeps the low 8 bits, u8 >> n shifts zeros in
Shl(b, n) == (b * (2 ^ n)) % 256
Shr(b, n) == b \div (2 ^ n)
WrappingAdd(a, b) == (a + b) % 256
WrappingSub(a, b) == (a + 256 - b) % 256

Zero8 == <<0, 0, 0, 0, 0, 0, 0, 0>>

-----------------------------------------------------------------------------
(* lib.rs decrypt, statement by statement *)

Swap(d, i, j) == [d EXCEPT ![i + 1] = d[j + 1], ![j + 1] = d[i + 1]]

\* lines 57-60: data.swap(0, 2); data.swap(1, 4); data.swap(3, 7); data.swap(5, 6)
Shuffle(data) == Swap(Swap(Swap(Swap(data, 0, 2), 1, 4), 3, 7), 5, 6)

\* lines 62-64: *r ^= k over data zipped with key
XorKey(data, key) == [i \in 1..8 |-> BitXor(data[i], key[i])]

\* one statement of lines 67-73: data[i] = (data[i-1] << 5) | (data[i] >> 3),
\* reading the array as the statements before it left it
RotateAt(data, i) ==
    [data EXCEPT ![i + 1] = BitOr(Shl(data[i], 5), Shr(data[i + 1], 3))]

\* lines 67-73, data[7] down to data[1]
RotateTail(data) ==
    RotateAt(RotateAt(RotateAt(RotateAt(RotateAt(RotateAt(RotateAt(data, 7), 6), 5), 4), 3), 2), 1)

\* line 74: data[0] = tmp | (data[0] >> 3)
RotateHead(data, tmp) == [data EXCEPT ![1] = BitOr(tmp, Shr(data[1], 3))]

\* the rotation with the wrap-around byte read after data[7] was overwritten
RotateNoTmp(data) == RotateHead(RotateTail(data), Shl(RotateTail(data)[8], 5))

\* lines 66-74: tmp = data[7] << 5 is taken before the in-place updates
Rotate(data) == RotateHead(RotateTail(data), Shl(data[8], 5))

\* b"Htemp99e"
MagicWord == <<72, 116, 101, 109, 112, 57, 57, 101>>

\* lines 76-78: *r = r.wrapping_sub(m << 4 | m >> 4)
Unmask(data) ==
    [i \in 1..8 |->
        WrappingSub(data[i], BitOr(Shl(MagicWord[i], 4), Shr(MagicWord[i], 4)))]

decrypt(data, key) == Unmask(Rotate(XorKey(Shuffle(data), key)))

-----------------------------------------------------------------------------
(* std::time::Duration and the `as i32` cast of Sensor::read *)

\* A Duration is [secs, nanos] with nanos < 10^9
from_secs(n) == [secs |-> n, nanos |-> 0]
from_millis(n) == [secs |-> n \div 1000, nanos |-> (n % 1000) * 1000000]

\* Duration::as_millis (a u128): secs * 1000 + nanos / 1_000_000, kept as two
\* 16-bit-based limbs, value = hi * 65536 + lo with lo < 65536, so that a count
\* beyond 2^31 stays representable
as_millis(d) ==
    LET low == (d.secs % 65536) * 1000 + (d.nanos \div 1000000)
    IN  [hi |-> (d.secs \div 65536) * 1000 + (low \div 65536), lo |-> low % 65536]

\* `as i32` on an integer: keeps the low 32 bits, read as two's complement
as_i32(m) ==
    LET h == m.hi % 65536
    IN  (IF h >= 32768 THEN h - 65536 ELSE h) * 65536 + m.lo

\* whether a millisecond count is at most i32::MAX
FitsI32(m) == m.hi < 32768

None == [some |-> FALSE]
Some(d) == [some |-> TRUE, d |-> d]

-----------------------------------------------------------------------------
(* AirQulityEvent and Option<AirQulityEvent> *)

NoRead == [tag |-> "NoRead"]
RetNone == [tag |-> "None"]
AmbientTemperature(t) == [tag |-> "AmbientTemperature", temp |-> t]
RelativeConcentration(w) == [tag |-> "RelativeConcentration", value |-> w]
Humidity(h) == [tag |-> "Humidity", value |-> h]
UnexpectedData(data) == [tag |-> "UnexpectedData", data |-> data]
WrongPacket == [tag |-> "WrongPacket"]
ChecksumError == [tag |-> "ChecksumError"]
UninitializeData == [tag |-> "UninitializeData"]
UnknownCode(data) == [tag |-> "UnknownCode", data |-> data]

\* w as f64 / 100.0, in units of 1/10000
decode_humidity(w) == (w * 10000) \div 100

\* w as f64 / 16.0 - 273.15, in units of 1/10000
decode_temperature(w) == ((w * 10000) \div 16) - 2731500

-----------------------------------------------------------------------------
(* OpenOptions *)

OptionsNew == [key |-> Zero8, debug |-> FALSE, timeout |-> Some(from_secs(5))]

\* Inputs the builder is driven with
SpecKey == <<98, 234, 29, 79, 20, 250, 229, 108>>
Keys == {Zero8, SpecKey}
Timeouts == {None, Some(from_secs(5)), Some(from_millis(250)), Some(from_secs(3000000))}

SetDebug(yesno) ==
    /\ opts' = [opts EXCEPT !.debug = yesno]
    /\ UNCHANGED <<sensor, openArg, openResult, release, featureSent, io, usedTimeout,
                   path, frame, event, nreads, mainVars, harnessVars>>

WithKey(key) ==
    /\ opts' = [opts EXCEPT !.key = key]
    /\ UNCHANGED <<sensor, openArg, openResult, release, featureSent, io, usedTimeout,
                   path, frame, event, nreads, mainVars, harnessVars>>

SetTimeout(timeout) ==
    /\ opts' = [opts EXCEPT !.timeout = timeout]
    /\ UNCHANGED <<sensor, openArg, openResult, release, featureSent, io, usedTimeout,
                   path, frame, event, nreads, mainVars, harnessVars>>

-----------------------------------------------------------------------------
(* Sensor::open *)

\* Release numbers the device may report
Releases == {255, 256, 257, 512}

\* the release test with the boundary on the other side
DecodeForStrict(release_number) == IF release_number >= DECODE_MAX_RELEASE THEN FALSE ELSE TRUE

\* lines 97-101: decode = if release_number > 0x0100 { false } else { true }
DecodeFor(release_number) == IF release_number > DECODE_MAX_RELEASE THEN FALSE ELSE TRUE

\* lines 105-109: a zero byte followed by the key
FeatureFrame(key) == <<0>> \o key

\* lines 118-124
NewSensor(options, decode) ==
    [open |-> TRUE, debug |-> options.debug, decode |-> decode, key |-> options.key,
     timeout |-> None]

\* hidOk: HidApi::new() and hidapi.open(VID, PID) both succeed; infoOk:
\* get_device_info() succeeds (it is unwrapped); featureOk: the outcome of
\* send_feature_report, which the code only logs
Open(hidOk, infoOk, release_number, featureOk) ==
    /\ ~sensor.open
    /\ openArg' = opts
    /\ IF ~hidOk
       THEN /\ openResult' = "Hid"
            /\ UNCHANGED <<sensor, release, featureSent>>
       ELSE IF ~infoOk
       THEN /\ openResult' = "Panic"
            /\ UNCHANGED <<sensor, release, featureSent>>
       ELSE /\ openResult' = "Ok"
            /\ release' = release_number
            /\ featureSent' = FeatureFrame(opts.key)
            /\ sensor' = NewSensor(opts, DecodeFor(release_number))
    /\ UNCHANGED <<opts, io, usedTimeout, path, frame, event, nreads, mainVars, harnessVars>>

-----------------------------------------------------------------------------
(* The transport: what dev.read_timeout(&mut data, timeout) can produce *)

\* Decoded payloads the test frames are built around (code, value hi, value lo,
\* checksum, marker, three trailing bytes)
PlainTemp == <<66, 18, 105, 189, 13, 0, 0, 0>>       \* 0x42, w = 4713
PlainHumd == <<65, 17, 92, 174, 13, 0, 0, 0>>        \* 0x41, w = 4444
PlainC3000 == <<80, 11, 184, 19, 13, 0, 0, 0>>       \* 0x50, w = 3000, sum wraps
PlainC3001 == <<80, 11, 185, 20, 13, 0, 0, 0>>       \* 0x50, w = 3001
PlainUnknown == <<109, 2, 85, 196, 13, 18, 52, 86>>  \* 0x6d
PlainBadSum == <<66, 18, 105, 190, 13, 0, 0, 0>>     \* marker right, checksum wrong
PlainBadMark == <<66, 18, 105, 189, 12, 0, 0, 0>>    \* marker wrong, checksum right
PlainBadBoth == <<80, 1, 144, 0, 141, 0, 0, 0>>      \* marker wrong, checksum wrong

PlainFrames ==
    {PlainTemp, PlainHumd, PlainC3000, PlainC3001, PlainUnknown, PlainBadSum,
     PlainBadMark, PlainBadBoth}

\* Reports that decrypt to such payloads under the all-zero key
ZeroKeyFrames ==
    {<<252, 164, 50, 182, 205, 154, 156, 152>>,   \* PlainTemp
     <<148, 164, 42, 182, 197, 154, 156, 32>>,    \* PlainHumd
     <<119, 164, 162, 182, 144, 154, 156, 72>>,   \* PlainC3000
     <<127, 164, 162, 182, 144, 154, 156, 80>>,   \* PlainC3001
     <<53, 164, 162, 182, 71, 154, 156, 184>>,    \* 0x50, w = 400
     <<92, 165, 138, 103, 77, 61, 46, 208>>,      \* PlainUnknown
     <<252, 164, 50, 182, 205, 154, 156, 160>>,   \* PlainBadSum
     <<252, 156, 50, 182, 205, 154, 156, 152>>,   \* PlainBadMark
     <<54, 164, 162, 182, 71, 154, 156, 180>>,    \* PlainBadBoth
     <<169, 164, 162, 182, 50, 154, 156, 32>>}    \* 0x50, w = 65535

\* Reports that decrypt to such payloads under SpecKey
SpecKeyFrames ==
    {<<225, 176, 80, 218, 39, 127, 102, 215>>,    \* PlainTemp
     <<98, 176, 192, 218, 122, 127, 102, 31>>,    \* PlainC3001
     <<225, 136, 80, 218, 39, 127, 102, 215>>}    \* PlainBadMark

FullFrames == PlainFrames \cup ZeroKeyFrames \cup SpecKeyFrames \cup {Zero8}

\* Seven-byte reads; the eighth byte of the buffer keeps its initial 0.  The first
\* decrypts under the all-zero key to 0x42, w = 4630 with marker and checksum right.
ShortFrames == {<<98, 164, 50, 182, 203, 154, 156, 0>>, PlainTemp}

IoErr == [kind |-> "err", size |-> 0, buf |-> Zero8]
IoOk(size, buf) == [kind |-> "ok", size |-> size, buf |-> buf]
NoIo == [kind |-> "none", size |-> 0, buf |-> Zero8]

IoResults ==
    {IoErr, IoOk(0, Zero8)}
        \cup {IoOk(7, f) : f \in ShortFrames}
        \cup {IoOk(8, f) : f \in FullFrames}

-----------------------------------------------------------------------------
(* Sensor::read *)

\* lines 131-133
ReadTimeout(s) ==
    as_i32(as_millis(IF s.timeout.some THEN s.timeout.d
                     ELSE from_secs(DEFAULT_TIMEOUT_SECS)))

\* the size test accepting every non-empty read
SizeNonZero(size) == size > 0

\* line 136
SizeOk(size) == size = 8

\* lines 146-150
DecodeStep(s, data) == IF s.decode THEN decrypt(data, s.key) ELSE data

\* line 153
MarkerOk(data) == data[5] = MARKER

\* the sum without the u8 wrap-around
ChecksumNoWrap(data) == data[1] + data[2] + data[3]

\* lines 160-167
Checksum(data) == WrappingAdd(WrappingAdd(WrappingAdd(0, data[1]), data[2]), data[3])

\* line 180: ((data[1] as u16) << 8) + data[2] as u16
Word(data) == ((data[2] * 256) % 65536) + data[3]

\* the match with the spurious-data test off by one
ClassifyOffByOne(data) ==
    LET w == Word(data)
    IN  IF data[1] = CODE_HUMD THEN Humidity(decode_humidity(w))
        ELSE IF data[1] = CODE_TAMB THEN AmbientTemperature(decode_temperature(w))
        ELSE IF data[1] = CODE_CNTR
        THEN IF w >= SPURIOUS_LIMIT THEN UninitializeData ELSE RelativeConcentration(w)
        ELSE UnknownCode(data)

\* lines 184-208
Classify(data) ==
    LET w == Word(data)
    IN  IF data[1] = CODE_HUMD THEN Humidity(decode_humidity(w))
        ELSE IF data[1] = CODE_TAMB THEN AmbientTemperature(decode_temperature(w))
        ELSE IF data[1] = CODE_CNTR
        THEN IF w > SPURIOUS_LIMIT THEN UninitializeData ELSE RelativeConcentration(w)
        ELSE UnknownCode(data)

\* the two checks in the other order
ValidateSumFirst(data) ==
    IF Checksum(data) # data[4]
    THEN [path |-> <<"checksum">>, event |-> ChecksumError]
    ELSE IF ~MarkerOk(data)
    THEN [path |-> <<"checksum", "marker">>, event |-> UnexpectedData(data)]
    ELSE [path |-> <<"checksum", "marker", "classify">>, event |-> Classify(data)]

\* lines 152-208: marker check, checksum check, classification
Validate(data) ==
    IF ~MarkerOk(data)
    THEN [path |-> <<"marker">>, event |-> UnexpectedData(data)]
    ELSE IF Checksum(data) # data[4]
    THEN [path |-> <<"marker", "checksum">>, event |-> ChecksumError]
    ELSE [path |-> <<"marker", "checksum", "classify">>, event |-> Classify(data)]

\* lines 152-208 on the frame the decode step produced
ReadFrame(s, data) ==
    [path |-> <<"read_timeout">> \o (IF s.decode THEN <<"decrypt">> ELSE <<>>)
                \o Validate(data).path,
     frame |-> data,
     event |-> Validate(data).event]

\* lines 135-209: what read does with the transport's answer `res`
ReadOutcome(s, res) ==
    IF res.kind # "ok"
    THEN [path |-> <<"read_timeout">>, frame |-> <<>>, event |-> RetNone]
    ELSE IF ~SizeOk(res.size)
    THEN [path |-> <<"read_timeout">>, frame |-> <<>>, event |-> WrongPacket]
    ELSE ReadFrame(s, DecodeStep(s, res.buf))

Read(res) ==
    /\ sensor.open
    /\ nreads < MaxReads
    /\ nreads' = nreads + 1
    /\ usedTimeout' = ReadTimeout(sensor)
    /\ io' = res
    /\ \E out \in {ReadOutcome(sensor, res)} :
           /\ path' = out.path
           /\ frame' = out.frame
           /\ event' = out.event
    /\ UNCHANGED <<opts, sensor, openArg, openResult, release, featureSent,
                   mainVars, harnessVars>>

-----------------------------------------------------------------------------
(* main.rs: the single-file polling loop *)

Log(level, what, value) == [level |-> level, what |-> what, value |-> value]

\* main.rs line 28: magic_table
MagicTable == Zero8

\* main.rs lines 9-11: w as f64 * 0.0625 - 273.15, in units of 1/10000
main_decode_temperature(w) == (w * 625) - 2731500

\* main.rs lines 45-54: the rotation, written into a second array `result`
MainRotate(buf) ==
    <<BitOr(Shl(buf[8], 5), Shr(buf[1], 3)),
      BitOr(Shl(buf[1], 5), Shr(buf[2], 3)),
      BitOr(Shl(buf[2], 5), Shr(buf[3], 3)),
      BitOr(Shl(buf[3], 5), Shr(buf[4], 3)),
      BitOr(Shl(buf[4], 5), Shr(buf[5], 3)),
      BitOr(Shl(buf[5], 5), Shr(buf[6], 3)),
      BitOr(Shl(buf[6], 5), Shr(buf[7], 3)),
      BitOr(Shl(buf[7], 5), Shr(buf[8], 3))>>

\* main.rs lines 56-69: result[i] = result[i].wrapping_sub(mask)
MainUnmask(result) ==
    [i \in 1..8 |->
        WrappingSub(result[i], BitOr(Shl(MagicWord[i], 4), Shr(MagicWord[i], 4)))]

\* main.rs lines 36-69: the decode written out in the loop body
MainDecode(buf) == MainUnmask(MainRotate(XorKey(Shuffle(buf), MagicTable)))

\* main.rs line 96
MainWord(result) == ((result[2] * 256) % 65536) + result[3]

\* main.rs lines 71-112: the log lines of one iteration on the decoded `result`
MainReport(result) ==
    LET w == MainWord(result)
    IN  IF result[5] # 13
        THEN <<Log("warn", "Unexpected", result[5])>>
        ELSE IF WrappingAdd(WrappingAdd(WrappingAdd(0, result[1]), result[2]), result[3])
                    # result[4]
        THEN <<Log("warn", "Checksum", result[4])>>
        ELSE IF result[1] = 66
        THEN <<Log("info", "AmbientTemperature", main_decode_temperature(w))>>
        ELSE IF result[1] = 80
        THEN (IF w > 3000 THEN <<Log("warn", "Spurious", w)>> ELSE <<>>)
                \o <<Log("info", "RelativeConcentration", w)>>
        ELSE <<Log("trace", "Unknown", w)>>

\* main.rs lines 25-29: HidApi::new(), api.open(..).unwrap(), send_feature_report
MainStart(apiOk, openOk) ==
    /\ mainPc = "init"
    /\ mainPc' = IF ~apiOk THEN "exit" ELSE IF ~openOk THEN "panic" ELSE "loop"
    /\ UNCHANGED <<sessionVars, mainIo, mainLog, harnessVars>>

\* main.rs lines 31-114: one iteration; the Result of read_timeout is not looked
\* at, the buffer is decoded whatever it holds
MainLoopStep(res) ==
    /\ mainPc = "loop"
    /\ mainIo' = res
    /\ mainLog' = MainReport(MainDecode(res.buf))
    /\ UNCHANGED <<sessionVars, mainPc, harnessVars>>

-----------------------------------------------------------------------------
(* decrypt as a pure function: a harness that applies it to one input *)

ByteSamples == {0, 165, 255}
HarnessFrames ==
    {<<a, b, c, d, e, f, g, h>> : a \in ByteSamples, b \in ByteSamples, c \in ByteSamples,
        d \in ByteSamples, e \in ByteSamples, f \in ByteSamples, g \in ByteSamples,
        h \in ByteSamples}
HarnessKeys == {Zero8, SpecKey, <<255, 255, 255, 255, 255, 255, 255, 255>>}

ApplyDecrypt ==
    /\ dOut = <<>>
    /\ dOut' = decrypt(dIn.data, dIn.key)
    /\ UNCHANGED <<sessionVars, mainVars, dIn>>

-----------------------------------------------------------------------------
(* Specifications *)

InitSession ==
    /\ opts = OptionsNew
    /\ sensor = [open |-> FALSE]
    /\ openArg = OptionsNew
    /\ openResult = "none"
    /\ release = 0
    /\ featureSent = <<>>
    /\ io = NoIo
    /\ usedTimeout = 0
    /\ path = <<>>
    /\ frame = <<>>
    /\ event = NoRead
    /\ nreads = 0

InitMain ==
    /\ mainPc = "init"
    /\ mainIo = NoIo
    /\ mainLog = <<>>

Init ==
    /\ InitSession
    /\ InitMain
    /\ dIn = [data |-> Zero8, key |-> Zero8]
    /\ dOut = <<>>

\* The session: the builder, open, read
Next ==
    \/ \E b \in BOOLEAN : SetDebug(b)
    \/ \E k \in Keys : WithKey(k)
    \/ \E t \in Timeouts : SetTimeout(t)
    \/ \E hidOk \in BOOLEAN, infoOk \in BOOLEAN, r \in Releases, featureOk \in BOOLEAN :
            Open(hidOk, infoOk, r, featureOk)
    \/ \E res \in IoResults : Read(res)

Spec == Init /\ [][Next]_vars

\* The session with default options beside the main.rs loop
NextMain ==
    \/ \E hidOk \in BOOLEAN, infoOk \in BOOLEAN, r \in Releases, featureOk \in BOOLEAN :
            Open(hidOk, infoOk, r, featureOk)
    \/ \E res \in IoResults : Read(res)
    \/ \E apiOk \in BOOLEAN, openOk \in BOOLEAN : MainStart(apiOk, openOk)
    \/ \E res \in IoResults : MainLoopStep(res)

SpecMain == Init /\ [][NextMain]_vars

\* decrypt alone, on every input of the harness
InitDecrypt ==
    /\ InitSession
    /\ InitMain
    /\ dIn \in [data : HarnessFrames \cup FullFrames, key : HarnessKeys]
    /\ dOut = <<>>

NextDecrypt == ApplyDecrypt

SpecDecrypt == InitDecrypt /\ [][NextDecrypt]_vars

-----------------------------------------------------------------------------
(* Properties *)

InPath(stage) == \E i \in 1..Len(path) : path[i] = stage
FullRead == nreads > 0 /\ io.kind = "ok" /\ io.size = 8

\* C1: every read of a session opened from options whose timeout is Some(d)
\* (d a millisecond count an i32 holds) hands d in milliseconds to read_timeout;
\* 5000 is used only when the options held no timeout.
C1_ConfiguredTimeoutUsed ==
    (sensor.open /\ nreads > 0)
        => IF openArg.timeout.some
           THEN FitsI32(as_millis(openArg.timeout.d))
                    => usedTimeout = as_i32(as_millis(openArg.timeout.d))
           ELSE usedTimeout = 5000

\* C2: read returns None exactly when the transport call failed, and once read
\* has returned None no later read of the session returns an event.
C2_NoneIsFinal ==
    /\ [](nreads > 0 => (io.kind = "err" <=> event = RetNone))
    /\ [][event = RetNone => event' = RetNone]_vars

\* C3: a successful transport read of any size other than 8 returns WrongPacket
\* with neither decrypt nor the marker and checksum checks run, and the read
\* after a WrongPacket is a fresh transport read classified as usual.
C3_ShortReadIsWrongPacket ==
    /\ []((nreads > 0 /\ io.kind = "ok" /\ io.size # 8)
            => (event = WrongPacket /\ path = <<"read_timeout">> /\ frame = <<>>))
    /\ [][(event = WrongPacket /\ nreads' # nreads)
            => /\ nreads' = nreads + 1
               /\ sensor'.open
               /\ (io'.kind = "err" => event' = RetNone)
               /\ (io'.kind = "ok" /\ io'.size = 8)
                    => (event'.tag \notin {"WrongPacket", "None"} /\ Len(frame') = 8)]_vars

\* a seven-byte read whose buffer would decrypt to a valid temperature frame
C3_Witness ==
    /\ nreads > 0 /\ sensor.decode /\ sensor.key = Zero8
    /\ io = IoOk(7, <<98, 164, 50, 182, 203, 154, 156, 0>>)
    /\ event = WrongPacket

\* C4: a full frame whose byte 4 (after the optional decrypt) is not 0x0d
\* returns UnexpectedData carrying that frame, whether or not its checksum is right.
C4_MarkerFirst ==
    (FullRead /\ frame[5] # 13) => event = UnexpectedData(frame)

\* marker and checksum both wrong, on the decrypt path
C4_Witness ==
    /\ FullRead /\ sensor.decode /\ frame = PlainBadBoth
    /\ frame[4] # (frame[1] + frame[2] + frame[3]) % 256
    /\ event = UnexpectedData(PlainBadBoth)

\* C5: a full frame with byte 4 = 0x0d returns ChecksumError exactly when byte 3
\* differs from (byte0 + byte1 + byte2) mod 256, and otherwise one of Humidity,
\* AmbientTemperature, RelativeConcentration, UninitializeData, UnknownCode.
C5_ChecksumLaw ==
    (FullRead /\ frame[5] = 13)
        => IF frame[4] = (frame[1] + frame[2] + frame[3]) % 256
           THEN event.tag \in {"Humidity", "AmbientTemperature", "RelativeConcentration",
                               "UninitializeData", "UnknownCode"}
           ELSE event = ChecksumError

\* a valid frame whose byte sum exceeds 255 (0x50, 0xff, 0xff), decrypted
C5_Witness ==
    /\ FullRead /\ sensor.decode /\ frame[5] = 13
    /\ frame[1] + frame[2] + frame[3] > 255
    /\ frame[4] = (frame[1] + frame[2] + frame[3]) % 256
    /\ event = UninitializeData

\* C6: a valid frame with code 0x50 and value w = byte1 * 256 + byte2 returns
\* RelativeConcentration(w) when w <= 3000 and UninitializeData when w > 3000; a
\* valid frame with a code other than 0x41, 0x42, 0x50 returns UnknownCode(frame).
C6_ClassificationBoundary ==
    (FullRead /\ frame[5] = 13 /\ frame[4] = (frame[1] + frame[2] + frame[3]) % 256)
        => /\ frame[1] = 80
                => event = (IF frame[2] * 256 + frame[3] <= 3000
                            THEN RelativeConcentration(frame[2] * 256 + frame[3])
                            ELSE UninitializeData)
           /\ frame[1] \notin {65, 66, 80} => event = UnknownCode(frame)

\* the value exactly 3000
C6_Witness ==
    /\ FullRead /\ frame[1] = 80 /\ frame[2] * 256 + frame[3] = 3000
    /\ event = RelativeConcentration(3000)

\* The four-step reference pipeline, every step a function of the whole array
\* as the step before it left it
RefPermutation == <<2, 4, 0, 7, 1, 6, 5, 3>>
RefSwapped(f) == [i \in 1..8 |-> f[RefPermutation[i] + 1]]
RefXored(f, k) == [i \in 1..8 |-> BitXor(f[i], k[i])]
RefRotated(f) ==
    [i \in 1..8 |-> ((f[IF i = 1 THEN 8 ELSE i - 1] * 32) % 256) + (f[i] \div 8)]
RefMask(i) == ((MagicWord[i] % 16) * 16) + (MagicWord[i] \div 16)
RefUnmasked(f) == [i \in 1..8 |-> (f[i] + 256 - RefMask(i)) % 256]
RefPipeline(f, k) == RefUnmasked(RefRotated(RefXored(RefSwapped(f), k)))

\* C7: decrypt returns the reference pipeline's result (swap, XOR with the key,
\* rotation over the bytes as they were before the rotation, mask subtraction
\* modulo 256) for every frame and key, and always returns eight bytes.
C7_DecryptIsReference ==
    dOut # <<>>
        => /\ dOut = RefPipeline(dIn.data, dIn.key)
           /\ Len(dOut) = 8
           /\ \A i \in 1..8 : dOut[i] \in Byte

\* the all-zero frame under the all-zero key
C7_Witness ==
    /\ dIn = [data |-> Zero8, key |-> Zero8]
    /\ dOut = <<124, 185, 170, 42, 249, 109, 109, 170>>

\* C8: options holding a timeout whose millisecond count no i32 holds never
\* yield an opened session.
C8_InvalidTimeoutRejected ==
    (openResult # "none" /\ openArg.timeout.some
        /\ ~FitsI32(as_millis(openArg.timeout.d)))
        => (openResult # "Ok" /\ ~sensor.open)

\* C9: open sets the decode flag to (release number <= 0x0100) and the key to
\* the options' key; no step changes either afterwards; a full read runs decrypt
\* exactly when the flag is set and otherwise keeps the bytes as received.
C9_DecodeFlagFixed ==
    /\ [](sensor.open => (sensor.decode = (release <= 256) /\ sensor.key = openArg.key))
    /\ [][sensor.open => /\ sensor'.open
                         /\ sensor'.decode = sensor.decode
                         /\ sensor'.key = sensor.key]_vars
    /\ [](FullRead => /\ InPath("decrypt") = sensor.decode
                      /\ sensor.decode => frame = decrypt(io.buf, sensor.key)
                      /\ ~sensor.decode => frame = io.buf)

\* release number exactly 0x0100, after two reads
C9_Witness ==
    /\ sensor.open /\ release = 256 /\ sensor.decode
    /\ nreads = 2 /\ FullRead /\ InPath("decrypt") /\ frame # io.buf

\* C10: whenever the main.rs loop logs a temperature or a CO2 reading for a
\* transport result, Sensor::read with the all-zero key and decode enabled
\* returns the same reading as an event for that transport result.
C10_MainIsSubset ==
    (mainPc = "loop" /\ mainIo.kind # "none" /\ sensor.open /\ sensor.decode
        /\ sensor.key = Zero8 /\ nreads > 0 /\ io = mainIo)
        => \A i \in 1..Len(mainLog) :
              /\ (mainLog[i].level = "info" /\ mainLog[i].what = "AmbientTemperature")
                    => event = AmbientTemperature(mainLog[i].value)
              /\ (mainLog[i].level = "info" /\ mainLog[i].what = "RelativeConcentration")
                    => event = RelativeConcentration(mainLog[i].value)

=============================================================================
